---- MODULE Spec2Model ----
(***************************************************************************)
(* Model of app.py: a Streamlit script that, for every uploaded image,     *)
(* checks its size, stores it, resizes/rotates/crops it and, when the      *)
(* file's button is clicked, removes the background (memoised by           *)
(* st.cache_data), optionally fills the transparent pixels with a colour   *)
(* and offers the result for download.                                     *)
(*                                                                         *)
(* A file name is the sequence of its dot-separated segments               *)
(* ("photo.jpg" is <<"photo", "jpg">>); an image is its size, the          *)
(* accumulated rotation, the origin of the crop window and its pixels      *)
(* (RGBA tuples, one per region of the picture); the working directory is  *)
(* a function from paths to images.  Streamlit sessions run the script     *)
(* concurrently and share the working directory and the cache.             *)
(***************************************************************************)
EXTENDS Integers, Sequences, FiniteSets, TLC

\* ---------------------------------------------------------------- bounds
MaxRuns == 4
MaxPixels == 2

\* ------------------------------------------------------ program constants
UPLOAD_FOLDER == "static/uploads"
ALLOWED_EXTENSIONS == {"png", "jpg", "jpeg", "webp"}
MAX_FILE_SIZE == 10 * 1024 * 1024
SliderMin == 100
SliderMax == 1000
SliderDefault == 500
RotationMax == 360
DefaultColor == <<15, 15, 15, 15, 15, 15>>
TempName == <<"temp_resized", "png">>

Sessions == {1, 2}

\* ------------------------------------------------------------ sequences
Last(s) == s[Len(s)]
Front(s) == SubSeq(s, 1, Len(s) - 1)
Max(a, b) == IF a >= b THEN a ELSE b

\* ------------------------------------------------------------ file names
\* str.lower() on the segments that occur in the model.
Lower(seg) ==
  CASE seg = "PNG" -> "png"
    [] seg = "JPG" -> "jpg"
    [] OTHER -> seg

\* filename.rsplit('.', 1)[1].lower() in ALLOWED_EXTENSIONS, '.' in filename
allowed_file(filename) ==
  Len(filename) >= 2 /\ Lower(Last(filename)) \in ALLOWED_EXTENSIONS

\* werkzeug's secure_filename on one segment: whitespace becomes "_".
SecureSegment(seg) ==
  CASE seg = "my photo" -> "my_photo"
    [] OTHER -> seg

secure_filename(name) == [i \in DOMAIN name |-> SecureSegment(name[i])]

\* os.path.join(UPLOAD_FOLDER, name)
PathJoin(folder, name) == <<folder, name>>

\* filename.split('.')[0] + "_rembg.png"
RembgName(filename) == <<Head(filename) \o "_rembg", "png">>

\* ---------------------------------------------------------------- images
Backdrop == <<0, 0, 255>>
Edge == <<90, 90, 200>>
Skin == <<200, 10, 10>>

Image(w, h, px) == [w |-> w, h |-> h, rot |-> 0, ox |-> 0, oy |-> 0, px |-> px]

\* Bytes that PIL cannot decode.
Corrupt == Image(0, 0, <<>>)

ImgA == Image(800, 600, <<Skin \o <<255>>, Edge \o <<255>>, Backdrop \o <<255>>>>)
ImgB == Image(640, 480, <<Backdrop \o <<255>>, Skin \o <<255>>>>)

\* image.resize((w, h)): exactly w x h, no aspect ratio kept.
resize(image, w, h) == [image EXCEPT !.w = w, !.h = h]

\* image.rotate(angle): same size (expand is off), content turned.
rotate(image, angle) == [image EXCEPT !.rot = (image.rot + angle) % 360]

\* crop with the box read as (left, upper, width, height).
crop_box_as_size(image, box) ==
  [image EXCEPT !.w = Max(0, box[3]), !.h = Max(0, box[4]),
                !.ox = image.ox + box[1], !.oy = image.oy + box[2]]

\* image.crop((left, upper, right, lower)): a window of the image; a window
\* with right < left or lower < upper has no pixels.
crop(image, box) ==
  [image EXCEPT !.w = Max(0, box[3] - box[1]), !.h = Max(0, box[4] - box[2]),
                !.ox = image.ox + box[1], !.oy = image.oy + box[2]]

\* rembg's remove: the alpha of a pixel says how much of it is foreground.
Mask(rgb) ==
  CASE rgb = Backdrop -> 0
    [] rgb = Edge -> 128
    [] OTHER -> 255

remove(image) ==
  [image EXCEPT !.px = [i \in DOMAIN image.px |->
      SubSeq(image.px[i], 1, 3) \o <<Mask(SubSeq(image.px[i], 1, 3))>>]]

\* tuple(int(bg_color[i:i+2], 16) for i in (1, 3, 5))
ParseColor(hex) ==
  <<16 * hex[1] + hex[2], 16 * hex[3] + hex[4], 16 * hex[5] + hex[6]>>

\* ReplacePixels filling every pixel that is not fully opaque.
ReplacePixels_not_opaque(px, color) ==
  [i \in DOMAIN px |-> IF px[i][4] < 255 THEN color \o <<255>> ELSE px[i]]

\* Transparent pixels take the colour, every other pixel stays (lines 50-56).
ReplacePixels(px, color) ==
  [i \in DOMAIN px |-> IF px[i][4] = 0 THEN color \o <<255>> ELSE px[i]]

\* The working directory after replace_background_color(input_path,
\* output_path, color): the image read from input_path is written, with its
\* transparent pixels filled, to output_path.
replace_background_color(files, input_path, output_path, color) ==
  LET image == files[input_path]
  IN  (output_path :> [image EXCEPT !.px = ReplacePixels(image.px, color)]) @@ files

\* check_file_size refusing a file of exactly MAX_FILE_SIZE bytes.
check_file_size_inclusive(file) == ~(file.size >= MAX_FILE_SIZE)

\* len(file.getbuffer()) > MAX_FILE_SIZE is refused.
check_file_size(file) == ~(file.size > MAX_FILE_SIZE)

\* st.file_uploader(type=ALLOWED_EXTENSIONS): the widget hands over the chosen
\* files whose extension, in lower case, is one of the types.
file_uploader(chosen, types) ==
  SelectSeq(chosen, LAMBDA f : Len(f.name) >= 2 /\ Lower(Last(f.name)) \in types)

\* -------------------------------------------------------------- inputs
File(name, size, img) == [name |-> name, size |-> size, img |-> img]

Batches ==
  { <<File(<<"photo", "jpg">>, MAX_FILE_SIZE, ImgA)>>,
    <<File(<<"image", "gif">>, 1024, ImgA), File(<<"photo", "jpg">>, 2048, ImgB)>>,
    <<File(<<"big", "webp">>, MAX_FILE_SIZE + 1, ImgA),
      File(<<"my photo", "v2", "PNG">>, 2048, ImgB)>>,
    <<File(<<"scan", "jpeg">>, 2048, Corrupt), File(<<"photo", "jpg">>, 2048, ImgA)>> }

Widgets(rw, rh, angle, cr, box, color) ==
  [resize_width |-> rw, resize_height |-> rh, rotation_angle |-> angle,
   crop |-> cr, box |-> box, bg_color |-> color]

Green == <<0, 0, 15, 15, 0, 0>>

\* The widgets as first drawn: the sliders' and the colour picker's defaults.
DefaultWidgets ==
  Widgets(SliderDefault, SliderDefault, 0, FALSE,
          <<0, 0, SliderDefault, SliderDefault>>, DefaultColor)

\* Settings a user leaves the widgets in before a rerun.
WidgetChoices ==
  { DefaultWidgets,
    Widgets(SliderDefault, SliderDefault, 0, FALSE,
            <<0, 0, SliderDefault, SliderDefault>>, Green),
    Widgets(SliderMin, SliderMax, 90, TRUE, <<0, 0, SliderMin, SliderMax>>, DefaultColor),
    Widgets(SliderMin, SliderMax, 90, TRUE, <<10, 20, 60, SliderMax>>, Green),
    Widgets(SliderDefault, SliderDefault, 0, TRUE, <<250, 0, 250, SliderDefault>>, DefaultColor),
    Widgets(SliderDefault, SliderDefault, 0, TRUE, <<SliderDefault, 0, 0, SliderDefault>>, Green) }

\* A crop window without pixels.
Degenerate(box) == box[3] <= box[1] \/ box[4] <= box[2]

\* Lines 88-103: open, resize, rotate and, when asked, crop.
Transform(image, w) ==
  LET resized == resize(image, w.resize_width, w.resize_height)
      rotated == rotate(resized, w.rotation_angle)
  IN  IF w.crop THEN crop(rotated, w.box) ELSE rotated

\* ---------------------------------------------------------------- state
VARIABLES
  chosen,          \* the files the user chose in the upload widget
  uploaded_files,  \* what st.file_uploader returns to the script
  widgets,         \* the sliders, the crop box and the colour picker
  clicked,         \* index of the file whose button started this run, or 0
  buttons,         \* indices of the files whose button is on the page
  pc,              \* where the script run of the session stands
  idx,             \* position of the for loop in uploaded_files
  image_resized,   \* the local of that name
  final_img_path,  \* the local of that name
  fs,              \* the working directory: path -> image
  cache,           \* st.cache_data of remove_background: arguments -> entry
  delivered,       \* what the download button of this run was given
  errors,          \* names st.error was shown for in this run
  exc,             \* the uncaught exception that ended this run, or "none"
  invoked,         \* <<name, stage>> pairs executed in this run
  visited,         \* indices whose loop body was entered in this run
  call,            \* the last remove_background call of this run
  runs             \* script runs started so far

vars ==
  <<chosen, uploaded_files, widgets, clicked, buttons, pc, idx, image_resized,
    final_img_path, fs, cache, delivered, errors, exc, invoked, visited, call, runs>>

NoPath == PathJoin("", <<>>)
TempPath == PathJoin(UPLOAD_FOLDER, TempName)
EmptyFs == [p \in {} |-> Corrupt]
EmptyCache == [k \in {} |-> [value |-> NoPath, input |-> Corrupt]]

Init ==
  /\ chosen = [s \in Sessions |-> <<>>]
  /\ uploaded_files = [s \in Sessions |-> <<>>]
  /\ widgets = [s \in Sessions |-> DefaultWidgets]
  /\ clicked = [s \in Sessions |-> 0]
  /\ buttons = [s \in Sessions |-> {}]
  /\ pc = [s \in Sessions |-> "idle"]
  /\ idx = [s \in Sessions |-> 1]
  /\ image_resized = [s \in Sessions |-> Corrupt]
  /\ final_img_path = [s \in Sessions |-> NoPath]
  /\ fs = EmptyFs
  /\ cache = EmptyCache
  /\ delivered = [s \in Sessions |-> <<>>]
  /\ errors = [s \in Sessions |-> {}]
  /\ exc = [s \in Sessions |-> "none"]
  /\ invoked = [s \in Sessions |-> {}]
  /\ visited = [s \in Sessions |-> {}]
  /\ call = [s \in Sessions |-> <<>>]
  /\ runs = 0

\* ------------------------------------------------------------ script run
\* The file of the current loop iteration and the names derived from it.
CurFile(s) == uploaded_files[s][idx[s]]
Filename(s) == secure_filename(CurFile(s).name)
RembgPath(s) == PathJoin(UPLOAD_FOLDER, RembgName(Filename(s)))
InLoop(s) == pc[s] = "loop" /\ idx[s] <= Len(uploaded_files[s])

\* Streamlit runs main() from the top: nothing of the previous run is left.
StartRun(s, c) ==
  /\ runs < MaxRuns
  /\ runs' = runs + 1
  /\ clicked' = [clicked EXCEPT ![s] = c]
  /\ buttons' = [buttons EXCEPT ![s] = {}]
  /\ pc' = [pc EXCEPT ![s] = "loop"]
  /\ idx' = [idx EXCEPT ![s] = 1]
  /\ image_resized' = [image_resized EXCEPT ![s] = Corrupt]
  /\ final_img_path' = [final_img_path EXCEPT ![s] = NoPath]
  /\ delivered' = [delivered EXCEPT ![s] = <<>>]
  /\ errors' = [errors EXCEPT ![s] = {}]
  /\ exc' = [exc EXCEPT ![s] = "none"]
  /\ invoked' = [invoked EXCEPT ![s] = {}]
  /\ visited' = [visited EXCEPT ![s] = {}]
  /\ call' = [call EXCEPT ![s] = <<>>]

\* Line 68: the user chooses files; the widget returns those of an allowed type.
Upload(s, batch) ==
  /\ pc[s] = "idle"
  /\ chosen[s] = <<>>
  /\ chosen' = [chosen EXCEPT ![s] = batch]
  /\ uploaded_files' = [uploaded_files EXCEPT ![s] = file_uploader(batch, ALLOWED_EXTENSIONS)]
  /\ StartRun(s, 0)
  /\ UNCHANGED <<widgets, fs, cache>>

\* The user moves widgets or clicks one of the buttons on the page: a rerun.
Interact(s, w, c) ==
  /\ pc[s] \in {"idle", "crashed"}
  /\ uploaded_files[s] # <<>>
  /\ c \in buttons[s] \cup {0}
  /\ w # widgets[s] \/ c # 0
  /\ widgets' = [widgets EXCEPT ![s] = w]
  /\ StartRun(s, c)
  /\ UNCHANGED <<chosen, uploaded_files, fs, cache>>

\* Lines 81-82: the upload is stored under its sanitised name.
StoreUpload(s) == (PathJoin(UPLOAD_FOLDER, Filename(s)) :> CurFile(s).img) @@ fs

Stage(s, names) == [invoked EXCEPT ![s] = @ \cup {<<CurFile(s).name, n>> : n \in names}]

\* An exception nobody catches ends the script run.
Raise(s, e) ==
  /\ exc' = [exc EXCEPT ![s] = e]
  /\ pc' = [pc EXCEPT ![s] = "crashed"]

\* Lines 75-76: st.error and continue.
RejectTooLarge(s) ==
  /\ InLoop(s)
  /\ ~check_file_size(CurFile(s))
  /\ errors' = [errors EXCEPT ![s] = @ \cup {CurFile(s).name}]
  /\ visited' = [visited EXCEPT ![s] = @ \cup {idx[s]}]
  /\ idx' = [idx EXCEPT ![s] = @ + 1]
  /\ UNCHANGED <<chosen, uploaded_files, widgets, clicked, buttons, pc, image_resized,
                 final_img_path, fs, cache, delivered, exc, invoked, call, runs>>

\* Line 88: Image.open raises on bytes that are no image.
OpenFails(s) ==
  /\ InLoop(s)
  /\ check_file_size(CurFile(s))
  /\ CurFile(s).img = Corrupt
  /\ fs' = StoreUpload(s)
  /\ invoked' = Stage(s, {"write"})
  /\ visited' = [visited EXCEPT ![s] = @ \cup {idx[s]}]
  /\ Raise(s, "UnidentifiedImageError")
  /\ UNCHANGED <<chosen, uploaded_files, widgets, clicked, buttons, idx, image_resized,
                 final_img_path, cache, delivered, errors, call, runs>>

\* Lines 103-104: PIL refuses a window with right < left, and an image without
\* pixels cannot be encoded for st.image.
CropFails(s) ==
  /\ InLoop(s)
  /\ check_file_size(CurFile(s))
  /\ CurFile(s).img # Corrupt
  /\ widgets[s].crop /\ Degenerate(widgets[s].box)
  /\ fs' = StoreUpload(s)
  /\ invoked' = Stage(s, {"write", "transform"})
  /\ visited' = [visited EXCEPT ![s] = @ \cup {idx[s]}]
  /\ Raise(s, "ValueError")
  /\ UNCHANGED <<chosen, uploaded_files, widgets, clicked, buttons, idx, image_resized,
                 final_img_path, cache, delivered, errors, call, runs>>

\* Lines 72-113: the body of the loop up to the button of the file.
Render(s) ==
  /\ InLoop(s)
  /\ check_file_size(CurFile(s))
  /\ CurFile(s).img # Corrupt
  /\ ~(widgets[s].crop /\ Degenerate(widgets[s].box))
  /\ fs' = StoreUpload(s)
  /\ image_resized' = [image_resized EXCEPT ![s] = Transform(CurFile(s).img, widgets[s])]
  /\ invoked' = Stage(s, {"write", "transform"})
  /\ visited' = [visited EXCEPT ![s] = @ \cup {idx[s]}]
  /\ buttons' = [buttons EXCEPT ![s] = @ \cup {idx[s]}]
  /\ IF clicked[s] = idx[s]
       THEN pc' = [pc EXCEPT ![s] = "save"] /\ idx' = idx
       ELSE pc' = pc /\ idx' = [idx EXCEPT ![s] = @ + 1]
  /\ UNCHANGED <<chosen, uploaded_files, widgets, clicked, final_img_path, cache,
                 delivered, errors, exc, call, runs>>

\* Lines 117-123: the edited image goes to the temporary file.
SaveTemp(s) ==
  /\ pc[s] = "save"
  /\ fs' = (TempPath :> image_resized[s]) @@ fs
  /\ pc' = [pc EXCEPT ![s] = "remove"]
  /\ UNCHANGED <<chosen, uploaded_files, widgets, clicked, buttons, idx, image_resized,
                 final_img_path, cache, delivered, errors, exc, invoked, visited, call, runs>>

\* st.cache_data keys a call by the values of its arguments: the two paths.
CacheKey(input_path, output_path) == <<input_path, output_path>>

AfterRemove(s) == IF widgets[s].bg_color # DefaultColor THEN "replace" ELSE "deliver"

Called(s, recomputed) ==
  <<[key |-> CacheKey(TempPath, RembgPath(s)), input |-> fs[TempPath],
     recomputed |-> recomputed]>>

\* Line 126 with a cached entry: the stored return value, the body is not run.
RemoveCached(s) ==
  /\ pc[s] = "remove"
  /\ CacheKey(TempPath, RembgPath(s)) \in DOMAIN cache
  /\ final_img_path' = [final_img_path EXCEPT ![s] = cache[CacheKey(TempPath, RembgPath(s))].value]
  /\ call' = [call EXCEPT ![s] = Called(s, FALSE)]
  /\ invoked' = Stage(s, {"segment"})
  /\ pc' = [pc EXCEPT ![s] = AfterRemove(s)]
  /\ UNCHANGED <<chosen, uploaded_files, widgets, clicked, buttons, idx, image_resized,
                 fs, cache, delivered, errors, exc, visited, runs>>

\* Lines 38-42: open the input, remove the background, save, return the path.
\* The entry remembers the input it was computed from.
remove_background(files, input_path, output_path) ==
  (output_path :> remove(files[input_path])) @@ files

RemoveComputed(s) ==
  /\ pc[s] = "remove"
  /\ CacheKey(TempPath, RembgPath(s)) \notin DOMAIN cache
  /\ fs' = remove_background(fs, TempPath, RembgPath(s))
  /\ cache' = (CacheKey(TempPath, RembgPath(s)) :>
                 [value |-> RembgPath(s), input |-> fs[TempPath]]) @@ cache
  /\ final_img_path' = [final_img_path EXCEPT ![s] = RembgPath(s)]
  /\ call' = [call EXCEPT ![s] = Called(s, TRUE)]
  /\ invoked' = Stage(s, {"segment"})
  /\ pc' = [pc EXCEPT ![s] = AfterRemove(s)]
  /\ UNCHANGED <<chosen, uploaded_files, widgets, clicked, buttons, idx, image_resized,
                 delivered, errors, exc, visited, runs>>

\* Line 40: rembg fails (its model cannot be loaded); nothing is cached.
RemoveFails(s) ==
  /\ pc[s] = "remove"
  /\ CacheKey(TempPath, RembgPath(s)) \notin DOMAIN cache
  /\ invoked' = Stage(s, {"segment"})
  /\ Raise(s, "SegmentationError")
  /\ UNCHANGED <<chosen, uploaded_files, widgets, clicked, buttons, idx, image_resized,
                 final_img_path, fs, cache, delivered, errors, visited, call, runs>>

\* Lines 129-131: a colour other than the default fills the transparent pixels.
ReplaceBackground(s) ==
  /\ pc[s] = "replace"
  /\ fs' = replace_background_color(fs, final_img_path[s], RembgPath(s),
                                    ParseColor(widgets[s].bg_color))
  /\ invoked' = Stage(s, {"composite"})
  /\ pc' = [pc EXCEPT ![s] = "deliver"]
  /\ UNCHANGED <<chosen, uploaded_files, widgets, clicked, buttons, idx, image_resized,
                 final_img_path, cache, delivered, errors, exc, visited, call, runs>>

\* Lines 136-145: the file at rembg_img_path is handed to the download button.
Deliver(s) ==
  /\ pc[s] = "deliver"
  /\ delivered' = [delivered EXCEPT ![s] =
       <<[file_name |-> RembgName(Filename(s)), data |-> fs[RembgPath(s)],
          source |-> CurFile(s).name, transformed |-> image_resized[s],
          bg_color |-> widgets[s].bg_color]>>]
  /\ invoked' = Stage(s, {"deliver"})
  /\ idx' = [idx EXCEPT ![s] = @ + 1]
  /\ pc' = [pc EXCEPT ![s] = "loop"]
  /\ UNCHANGED <<chosen, uploaded_files, widgets, clicked, buttons, image_resized,
                 final_img_path, fs, cache, errors, exc, visited, call, runs>>

\* The loop is through: main() returns.
Finish(s) ==
  /\ pc[s] = "loop"
  /\ idx[s] > Len(uploaded_files[s])
  /\ pc' = [pc EXCEPT ![s] = "idle"]
  /\ UNCHANGED <<chosen, uploaded_files, widgets, clicked, buttons, idx, image_resized,
                 final_img_path, fs, cache, delivered, errors, exc, invoked, visited,
                 call, runs>>

Next ==
  \E s \in Sessions :
    \/ \E batch \in Batches : Upload(s, batch)
    \/ \E w \in WidgetChoices : \E c \in 0..2 : Interact(s, w, c)
    \/ RejectTooLarge(s)
    \/ OpenFails(s)
    \/ CropFails(s)
    \/ Render(s)
    \/ SaveTemp(s)
    \/ RemoveCached(s)
    \/ RemoveComputed(s)
    \/ RemoveFails(s)
    \/ ReplaceBackground(s)
    \/ Deliver(s)
    \/ Finish(s)

Spec == Init /\ [][Next]_vars

\* ------------------------------------------- the compositor on its own
\* replace_background_color called on every small RGBA image and colour, with
\* an output path of its own.
Blue == <<0, 0, 0, 0, 15, 15>>
Colors == {DefaultColor, Green, Blue}
Alphas == {0, 128, 255}
Pixels == {rgb \o <<a>> : rgb \in {Backdrop, Skin}, a \in Alphas}

RECURSIVE SeqsUpTo(_, _)
SeqsUpTo(S, n) ==
  IF n = 0 THEN {<<>>}
  ELSE LET shorter == SeqsUpTo(S, n - 1)
       IN  shorter \cup {Append(q, x) : q \in shorter, x \in S}

RGBAImages == {Image(Len(px), 1, px) : px \in SeqsUpTo(Pixels, MaxPixels)}

InPath == PathJoin(UPLOAD_FOLDER, <<"in", "png">>)
OutPath == PathJoin(UPLOAD_FOLDER, <<"out", "png">>)

InitComp ==
  /\ chosen = [s \in Sessions |-> <<>>]
  /\ uploaded_files = [s \in Sessions |-> <<>>]
  /\ \E color \in Colors :
       widgets = [s \in Sessions |-> [DefaultWidgets EXCEPT !.bg_color = color]]
  /\ clicked = [s \in Sessions |-> 0]
  /\ buttons = [s \in Sessions |-> {}]
  /\ pc = [s \in Sessions |-> IF s = 1 THEN "compose" ELSE "idle"]
  /\ idx = [s \in Sessions |-> 1]
  /\ image_resized = [s \in Sessions |-> Corrupt]
  /\ final_img_path = [s \in Sessions |-> IF s = 1 THEN InPath ELSE NoPath]
  /\ \E image \in RGBAImages : fs = (InPath :> image)
  /\ cache = EmptyCache
  /\ delivered = [s \in Sessions |-> <<>>]
  /\ errors = [s \in Sessions |-> {}]
  /\ exc = [s \in Sessions |-> "none"]
  /\ invoked = [s \in Sessions |-> {}]
  /\ visited = [s \in Sessions |-> {}]
  /\ call = [s \in Sessions |-> <<>>]
  /\ runs = 0

\* Lines 45-60, called with two different paths.
Compose ==
  /\ pc[1] = "compose"
  /\ fs' = replace_background_color(fs, final_img_path[1], OutPath,
                                    ParseColor(widgets[1].bg_color))
  /\ pc' = [pc EXCEPT ![1] = "composed"]
  /\ UNCHANGED <<chosen, uploaded_files, widgets, clicked, buttons, idx, image_resized,
                 final_img_path, cache, delivered, errors, exc, invoked, visited, call, runs>>

SpecComp == InitComp /\ [][Compose]_vars

\* ------------------------------------ the geometric edits, line by line
Angles == {0, 45, 90, RotationMax}
SliderValues == {SliderMin, SliderDefault, SliderMax}

\* Every setting of the sliders and of the crop box: a corner is 0, 50 or the
\* far end of its slider.
TransformSpecs ==
  UNION { { Widgets(rw, rh, angle, FALSE, <<0, 0, rw, rh>>, DefaultColor) } \cup
          { Widgets(rw, rh, angle, TRUE, <<left, upper, right, lower>>, DefaultColor) :
              left \in {0, 50, rw}, upper \in {0, 50, rh},
              right \in {0, 50, rw}, lower \in {0, 50, rh} } :
          rw \in SliderValues, rh \in SliderValues, angle \in Angles }

InitTransform ==
  /\ chosen = [s \in Sessions |-> <<>>]
  /\ \E image \in {ImgA, ImgB} :
       uploaded_files = [s \in Sessions |->
         IF s = 1 THEN <<File(<<"photo", "jpg">>, 2048, image)>> ELSE <<>>]
  /\ \E w \in TransformSpecs : widgets = [s \in Sessions |-> w]
  /\ clicked = [s \in Sessions |-> 0]
  /\ buttons = [s \in Sessions |-> {}]
  /\ pc = [s \in Sessions |-> IF s = 1 THEN "open" ELSE "idle"]
  /\ idx = [s \in Sessions |-> 1]
  /\ image_resized = [s \in Sessions |-> Corrupt]
  /\ final_img_path = [s \in Sessions |-> NoPath]
  /\ fs = EmptyFs
  /\ cache = EmptyCache
  /\ delivered = [s \in Sessions |-> <<>>]
  /\ errors = [s \in Sessions |-> {}]
  /\ exc = [s \in Sessions |-> "none"]
  /\ invoked = [s \in Sessions |-> {}]
  /\ visited = [s \in Sessions |-> {}]
  /\ call = [s \in Sessions |-> <<>>]
  /\ runs = 0

GeometryStep(next, image) ==
  /\ pc' = [pc EXCEPT ![1] = next]
  /\ image_resized' = [image_resized EXCEPT ![1] = image]
  /\ UNCHANGED <<chosen, uploaded_files, widgets, clicked, buttons, idx, final_img_path,
                 fs, cache, delivered, errors, exc, invoked, visited, call, runs>>

\* Lines 88-89
ResizeStep ==
  /\ pc[1] = "open"
  /\ GeometryStep("resized", resize(CurFile(1).img, widgets[1].resize_width,
                                    widgets[1].resize_height))

\* Lines 93-94
RotateStep ==
  /\ pc[1] = "resized"
  /\ GeometryStep("rotated", rotate(image_resized[1], widgets[1].rotation_angle))

\* Lines 97-98 with the box unticked
SkipCropStep ==
  /\ pc[1] = "rotated"
  /\ ~widgets[1].crop
  /\ GeometryStep("uncropped", image_resized[1])

\* Lines 99-103
CropStep ==
  /\ pc[1] = "rotated"
  /\ widgets[1].crop
  /\ ~Degenerate(widgets[1].box)
  /\ GeometryStep("cropped", crop(image_resized[1], widgets[1].box))

\* Lines 103-104 for a window without pixels
CropStepFails ==
  /\ pc[1] = "rotated"
  /\ widgets[1].crop
  /\ Degenerate(widgets[1].box)
  /\ Raise(1, "ValueError")
  /\ UNCHANGED <<chosen, uploaded_files, widgets, clicked, buttons, idx, image_resized,
                 final_img_path, fs, cache, delivered, errors, invoked, visited, call, runs>>

NextTransform == ResizeStep \/ RotateStep \/ SkipCropStep \/ CropStep \/ CropStepFails

SpecTransform == InitTransform /\ [][NextTransform]_vars

\* ================================================================ claims
StageNames == {"write", "transform", "segment", "composite", "deliver"}

\* The name <base>_rembg.png, <base> being the name without its last segment.
BaseRembgName(name) ==
  LET base == Front(name)
  IN  Front(base) \o <<Last(base) \o "_rembg", "png">>

\* C1: when a script run is ended by a failure on one file, every file of the
\* batch has still been iterated (the loop over the other files is not aborted).
C1_BatchIsolation ==
  \A s \in Sessions :
    pc[s] = "crashed" => \A i \in 1..Len(uploaded_files[s]) : i \in visited[s]

\* C2: a chosen file is handed to the script exactly when its extension is
\* allowed (case-insensitively); an iterated file is written to the working
\* directory exactly when it is allowed and at most MAX_FILE_SIZE bytes long;
\* for a file failing either check no stage is ever invoked.
C2_ValidationGate ==
  \A s \in Sessions : \A i \in 1..Len(chosen[s]) :
    LET f == chosen[s][i]
        valid == allowed_file(f.name) /\ f.size <= MAX_FILE_SIZE
        iterated == \E j \in visited[s] : uploaded_files[s][j] = f
    IN  /\ allowed_file(f.name) <=> \E j \in 1..Len(uploaded_files[s]) : uploaded_files[s][j] = f
        /\ ~valid => \A n \in StageNames : <<f.name, n>> \notin invoked[s]
        /\ (valid /\ iterated) => <<f.name, "write">> \in invoked[s]

\* A run that refused a file one byte too long and stored the next file of
\* the batch, whose extension is written in capitals.
C2_Witness ==
  \E s \in Sessions : \E i, j \in 1..Len(chosen[s]) :
    /\ chosen[s][i].size = MAX_FILE_SIZE + 1
    /\ chosen[s][i].name \in errors[s]
    /\ Last(chosen[s][j].name) = "PNG"
    /\ <<chosen[s][j].name, "write">> \in invoked[s]

\* C3: an artifact delivered with the default white colour selected is the
\* segmentation of the image that run transformed.
C3_DefaultWhiteKeepsSegmentation ==
  \A s \in Sessions :
    (delivered[s] # <<>> /\ delivered[s][1].bg_color = DefaultColor)
      => delivered[s][1].data = remove(delivered[s][1].transformed)

\* C4: a remove_background call answered from the cache has the input content
\* the cached entry was computed from (other content is recomputed).
C4_CacheFollowsContent ==
  \A s \in Sessions :
    (call[s] # <<>> /\ ~call[s][1].recomputed)
      => cache[call[s][1].key].input = call[s][1].input

\* C5: the compositor's output has the size of its input, the colour with
\* alpha 255 wherever the input alpha is 0, and the input pixel elsewhere.
C5_CompositorResult ==
  pc[1] = "composed" =>
    LET input == fs[InPath]
        output == fs[OutPath]
        color == ParseColor(widgets[1].bg_color)
    IN  /\ output.w = input.w /\ output.h = input.h
        /\ DOMAIN output.px = DOMAIN input.px
        /\ \A i \in DOMAIN input.px :
             /\ input.px[i][4] = 0 => output.px[i] = color \o <<255>>
             /\ input.px[i][4] # 0 => output.px[i] = input.px[i]

\* A composed image with a transparent and a partially transparent pixel.
C5_Witness ==
  /\ pc[1] = "composed"
  /\ \E i, j \in DOMAIN fs[InPath].px :
       fs[InPath].px[i][4] = 0 /\ fs[InPath].px[j][4] = 128

\* C6: the image a run is about to segment is the transformed image that
\* same run saved.
C6_SegmentsOwnImage ==
  \A s \in Sessions : pc[s] = "remove" => fs[TempPath] = image_resized[s]

\* C7: the delivered artifact is named <base>_rembg.png, <base> being the
\* stored file name without its final extension.
C7_OutputFileName ==
  \A s \in Sessions :
    delivered[s] # <<>>
      => delivered[s][1].file_name = BaseRembgName(secure_filename(delivered[s][1].source))

\* C8: after the resize the image is resize_width x resize_height; after a
\* crop it is (right-left) x (lower-upper); the full-image box changes
\* nothing; the outcome is resize, then rotate, then the optional crop.
C8_TransformDimensions ==
  LET w == widgets[1]
      image == image_resized[1]
      source == uploaded_files[1][1].img
  IN  /\ pc[1] = "resized" => (image.w = w.resize_width /\ image.h = w.resize_height)
      /\ pc[1] = "cropped" =>
           /\ image.w = w.box[3] - w.box[1]
           /\ image.h = w.box[4] - w.box[2]
           /\ w.box = <<0, 0, w.resize_width, w.resize_height>> =>
                (image.ox = 0 /\ image.oy = 0 /\ image.px = source.px
                 /\ image.rot = w.rotation_angle % 360)
      /\ pc[1] \in {"cropped", "uncropped"} => image = Transform(source, w)

\* A crop to a window that starts inside the image.
C8_Witness ==
  /\ pc[1] = "cropped"
  /\ widgets[1].box[1] = 50
  /\ image_resized[1].w = widgets[1].resize_width - 50

\* C9: a file whose crop box is degenerate is rejected for that file alone:
\* an error is reported for it, no exception ends the run, and no
\* segmentation, compositing or delivery takes place for it.
C9_DegenerateCropRejected ==
  \A s \in Sessions : \A i \in 1..Len(uploaded_files[s]) :
    LET name == uploaded_files[s][i].name
    IN  (widgets[s].crop /\ Degenerate(widgets[s].box) /\ <<name, "transform">> \in invoked[s])
          => /\ name \in errors[s]
             /\ exc[s] = "none"
             /\ \A n \in {"segment", "composite", "deliver"} : <<name, n>> \notin invoked[s]

\* C10: the pipeline's compositor call leaves the stored segmentation result
\* (the file it reads) as it was.
C10_CompositorKeepsInput ==
  [][\A s \in Sessions :
       (pc[s] = "replace" /\ pc'[s] = "deliver")
         => fs'[final_img_path[s]] = fs[final_img_path[s]]]_vars

====
